---- MODULE Spec2Model ----
(***************************************************************************)
(* License server (src/main.py): the licenses and activations tables and   *)
(* its endpoints: POST /admin/create, POST /activate and the GET reports.   *)
(*                                                                         *)
(* Every request runs in its own SQLAlchemy session (get_db) on a thread   *)
(* of the worker pool, so requests interleave between their SQL            *)
(* statements.  The sessions are autocommit=False, autoflush=False on      *)
(* SQLite: a SELECT reads the committed tables at the moment it runs, the  *)
(* ORM object `lic` is the copy of the row taken by the SELECT of line     *)
(* 174, and db.commit() flushes the pending UPDATE/INSERT in a single      *)
(* transaction that either commits whole or is rolled back whole.          *)
(***************************************************************************)
EXTENDS Integers, Sequences, FiniteSets, TLC

\* Number of /activate requests of a behaviour (each may overlap the others).
NumCalls == 2
\* Number of admin requests (create and reports) of a behaviour of SpecAdmin.
NumAdmin == 2
\* Largest instant the wall clock reaches.
MaxTime == 1

Calls == 1..NumCalls

AdminCalls == 1..NumAdmin

VARIABLES licenses, activations, clock, calls, admin

vars == <<licenses, activations, clock, calls, admin>>

----------------------------------------------------------------------------
\* Values

\* Python None in a DateTime column or attribute.
None == [tz |-> "None", t |-> 0]

\* NULL in licenses.machine_fingerprint.
NoMachine == "NULL"

\* utc_now(): datetime.now(timezone.utc), an offset-aware datetime.
utc_now(t) == [tz |-> "utc", t |-> t]

\* Column(DateTime) without timezone=True on SQLite: the value is written as
\* "YYYY-MM-DD HH:MM:SS.ffffff", the offset is dropped, and what is read
\* back is an offset-naive datetime.
DateTimeColumn(dt) == IF dt = None THEN None ELSE [tz |-> "naive", t |-> dt.t]

\* a <= b on datetimes raises TypeError when one is offset-naive and the
\* other offset-aware.
ComparableDatetimes(a, b) == a.tz = b.tz

\* dt + timedelta(seconds=s) keeps the tzinfo of dt.
PlusSeconds(dt, s) == [tz |-> dt.tz, t |-> dt.t + s]

\* hash_key: SHA-256 hex digest of the raw key (injective on the keys used).
hash_key(raw_key) == <<"sha256", raw_key>>

\* The session holds no License object.
NoLic == [id |-> 0]

----------------------------------------------------------------------------
\* Request payloads

CreatePayloads ==
  { [license_id |-> "L1", raw_key |-> "k1", duration_seconds |-> 1, max_seats |-> 2],
    [license_id |-> "L1", raw_key |-> "k1", duration_seconds |-> 0, max_seats |-> 1],
    [license_id |-> "L2", raw_key |-> "k2", duration_seconds |-> 1, max_seats |-> 1],
    [license_id |-> "L1", raw_key |-> "k1", duration_seconds |-> 0, max_seats |-> 0],
    [license_id |-> "L1", raw_key |-> "k1", duration_seconds |-> -1, max_seats |-> 1] }

ActivatePayloads ==
  { [license_id |-> "L1", raw_key |-> "k1", machine_fingerprint |-> "m1"],
    [license_id |-> "L1", raw_key |-> "k1", machine_fingerprint |-> "m2"],
    [license_id |-> "L1", raw_key |-> "k2", machine_fingerprint |-> "m1"],
    [license_id |-> "L2", raw_key |-> "k2", machine_fingerprint |-> "m1"] }

NoPayload == [license_id |-> "", raw_key |-> "", machine_fingerprint |-> ""]

----------------------------------------------------------------------------
\* Queries

\* db.query(License).filter_by(license_id=...).first()
LicenseByLicenseId(license_id) ==
  LET hits == {i \in DOMAIN licenses : licenses[i].license_id = license_id}
  IN IF hits = {} THEN NoLic
     ELSE licenses[CHOOSE i \in hits : \A j \in hits : i <= j]

\* db.query(Activation).filter_by(license_db_id=..., machine_fingerprint=...)
ActivationsOf(license_db_id, machine_fingerprint) ==
  {i \in DOMAIN activations :
     /\ activations[i].license_db_id = license_db_id
     /\ activations[i].machine_fingerprint = machine_fingerprint}

\* db.query(Activation).filter_by(license_db_id=lic.id).count()
CountActivations(license_db_id) ==
  Cardinality({i \in DOMAIN activations :
                 activations[i].license_db_id = license_db_id})

----------------------------------------------------------------------------
\* Responses

Response(message, expires_at, used_seats) ==
  [message |-> message, expires_at |-> expires_at, used_seats |-> used_seats]

\* raise HTTPException(status_code=400, detail=...) or an uncaught exception
Failure(detail) == Response(detail, None, 0)

NoResponse == Response("", None, 0)

IdleCall ==
  [pc |-> "idle", payload |-> NoPayload, lic |-> NoLic, now |-> None,
   used_seats |-> 0, held_at_start |-> FALSE, result |-> NoResponse]

\* The handler returns or raises: get_db closes the session, and what is left
\* of the request is its payload and its response.
Finish(c, r) ==
  calls' = [calls EXCEPT ![c] =
    [IdleCall EXCEPT !.pc = "done", !.payload = calls[c].payload, !.result = r]]

\* An admin request: its endpoint, its input and its response.
AdminResponse(message, body) == [message |-> message, body |-> body]

IdleAdmin ==
  [pc |-> "idle", op |-> "", payload |-> [license_id |-> ""],
   result |-> AdminResponse("", <<>>)]

\* The admin handler returns or raises.
FinishAdmin(a, op, payload, r) ==
  admin' = [admin EXCEPT ![a] =
    [pc |-> "done", op |-> op, payload |-> payload, result |-> r]]

----------------------------------------------------------------------------
\* Initial state: Base.metadata.create_all on an empty database, no request
\* in progress.

Init ==
  /\ licenses = <<>>
  /\ activations = <<>>
  /\ clock = 0
  /\ calls = [c \in Calls |-> IdleCall]
  /\ admin = [a \in AdminCalls |-> IdleAdmin]

----------------------------------------------------------------------------
\* POST /admin/create

\* License(license_id=..., key_hash=hash_key(raw_key), ..., used_seats=0,
\* active=True) with the autoincrement primary key
NewLicense(payload) ==
  [id |-> Len(licenses) + 1,
   license_id |-> payload.license_id,
   key_hash |-> hash_key(payload.raw_key),
   duration_seconds |-> payload.duration_seconds,
   first_activation_at |-> None,
   expires_at |-> None,
   machine_fingerprint |-> NoMachine,
   active |-> TRUE,
   max_seats |-> payload.max_seats,
   used_seats |-> 0]

\* The handler rejects max_seats <= 0, duration_seconds < 0 and an existing
\* license_id (and the unique index on license_id rejects the INSERT of a
\* license_id committed in the meantime); otherwise the row is committed.
admin_create_license(payload) ==
  /\ IF /\ payload.max_seats > 0
        /\ payload.duration_seconds >= 0
        /\ LicenseByLicenseId(payload.license_id) = NoLic
     THEN licenses' = Append(licenses, NewLicense(payload))
     ELSE licenses' = licenses
  /\ UNCHANGED <<activations, clock, calls, admin>>

----------------------------------------------------------------------------
\* POST /activate, one action per SQL statement of the handler

\* The load step of the handler if it did not look at lic.active.
ActivateLoad_ignoring_active(c, payload) ==
  /\ calls[c].pc = "idle"
  /\ \A b \in Calls : b < c => calls[b].pc # "idle"
  /\ LET lic == LicenseByLicenseId(payload.license_id)
     IN IF lic = NoLic
        THEN calls' = [calls EXCEPT ![c] =
               [IdleCall EXCEPT !.pc = "done", !.payload = payload,
                  !.result = Failure("Unknown or inactive license")]]
        ELSE IF lic.key_hash # hash_key(payload.raw_key)
        THEN calls' = [calls EXCEPT ![c] =
               [IdleCall EXCEPT !.pc = "done", !.payload = payload,
                  !.result = Failure("Invalid key for this License ID")]]
        ELSE calls' = [calls EXCEPT ![c] =
               [IdleCall EXCEPT !.pc = "expiry", !.payload = payload, !.lic = lic,
                  !.held_at_start =
                     (ActivationsOf(lic.id, payload.machine_fingerprint) # {})]]
  /\ UNCHANGED <<licenses, activations, clock, admin>>

\* Lines 174-180: load the License row into the session, reject an unknown
\* or inactive license, then a wrong key.
\* held_at_start records whether the machine had a seat when the row was
\* loaded (an observation for the properties; the handler does not read it).
ActivateLoad(c, payload) ==
  /\ calls[c].pc = "idle"
  /\ \A b \in Calls : b < c => calls[b].pc # "idle"
  /\ LET lic == LicenseByLicenseId(payload.license_id)
     IN IF lic = NoLic \/ ~lic.active
        THEN calls' = [calls EXCEPT ![c] =
               [IdleCall EXCEPT !.pc = "done", !.payload = payload,
                  !.result = Failure("Unknown or inactive license")]]
        ELSE IF lic.key_hash # hash_key(payload.raw_key)
        THEN calls' = [calls EXCEPT ![c] =
               [IdleCall EXCEPT !.pc = "done", !.payload = payload,
                  !.result = Failure("Invalid key for this License ID")]]
        ELSE calls' = [calls EXCEPT ![c] =
               [IdleCall EXCEPT !.pc = "expiry", !.payload = payload, !.lic = lic,
                  !.held_at_start =
                     (ActivationsOf(lic.id, payload.machine_fingerprint) # {})]]
  /\ UNCHANGED <<licenses, activations, clock, admin>>

\* Lines 182-186: now = utc_now(), then the expiry check on the loaded row.
\* lic.expires_at came out of the DateTime column (offset-naive) and now is
\* offset-aware, so lic.expires_at <= now raises TypeError whenever
\* lic.expires_at is not None.
ActivateExpiry(c) ==
  /\ calls[c].pc = "expiry"
  /\ \E t \in clock..MaxTime :
       LET now == utc_now(t)
           lic == calls[c].lic
       IN /\ clock' = t
          /\ IF lic.expires_at # None /\ ~ComparableDatetimes(lic.expires_at, now)
             THEN Finish(c, Failure("TypeError"))
             ELSE IF lic.expires_at # None /\ lic.expires_at.t <= now.t
             THEN Finish(c, Failure("License expired"))
             ELSE calls' = [calls EXCEPT ![c].pc = "lookup", ![c].now = now]
  /\ UNCHANGED <<licenses, activations, admin>>

\* Lines 189-194: look for an Activation of this machine on this license.
ActivateLookup(c) ==
  /\ calls[c].pc = "lookup"
  /\ calls' = [calls EXCEPT ![c].pc =
       IF ActivationsOf(calls[c].lic.id,
                        calls[c].payload.machine_fingerprint) # {}
       THEN "existing" ELSE "count"]
  /\ UNCHANGED <<licenses, activations, clock, admin>>

\* Lines 195-202: "Already activated on this machine", with a fresh count.
ActivateExisting(c) ==
  /\ calls[c].pc = "existing"
  /\ Finish(c, Response("Already activated on this machine",
                        calls[c].lic.expires_at,
                        CountActivations(calls[c].lic.id)))
  /\ UNCHANGED <<licenses, activations, clock, admin>>

\* Lines 205-207: count the seats in use and compare with max_seats.
ActivateCount(c) ==
  /\ calls[c].pc = "count"
  /\ LET used_seats == CountActivations(calls[c].lic.id)
     IN IF used_seats >= calls[c].lic.max_seats
        THEN Finish(c, Failure("Max seats reached for this License ID"))
        ELSE calls' = [calls EXCEPT ![c].pc = "commit",
                                    ![c].used_seats = used_seats]
  /\ UNCHANGED <<licenses, activations, clock, admin>>

\* ExpiryWindow with the duration left out of the sum.
ExpiryWindow_without_duration(duration_seconds, now) ==
  IF duration_seconds = 0 THEN None ELSE now

\* ExpiryWindow without the perpetual case.
ExpiryWindow_without_perpetual(duration_seconds, now) ==
  PlusSeconds(now, duration_seconds)

\* Lines 212-215: None for a perpetual license, else now + duration.
ExpiryWindow(duration_seconds, now) ==
  IF duration_seconds = 0 THEN None ELSE PlusSeconds(now, duration_seconds)

\* Lines 210-229: the attribute assignments on the session's License object.
AssignLicense(lic, now, machine_fingerprint, used_seats) ==
  LET first == IF lic.first_activation_at = None
               THEN [lic EXCEPT !.first_activation_at = now,
                                !.expires_at = ExpiryWindow(lic.duration_seconds, now)]
               ELSE lic
  IN [first EXCEPT !.machine_fingerprint = machine_fingerprint,
                   !.used_seats = used_seats + 1]

\* The flush of the License object: UPDATE licenses SET <the attributes whose
\* value differs from the loaded one> WHERE id = lic.id.  The other columns
\* keep what the table holds, whoever wrote it.
UpdateLicense(row, loaded, assigned) ==
  [row EXCEPT
     !.first_activation_at =
        IF assigned.first_activation_at # loaded.first_activation_at
        THEN DateTimeColumn(assigned.first_activation_at) ELSE @,
     !.expires_at =
        IF assigned.expires_at # loaded.expires_at
        THEN DateTimeColumn(assigned.expires_at) ELSE @,
     !.machine_fingerprint =
        IF assigned.machine_fingerprint # loaded.machine_fingerprint
        THEN assigned.machine_fingerprint ELSE @,
     !.used_seats =
        IF assigned.used_seats # loaded.used_seats
        THEN assigned.used_seats ELSE @]

\* Lines 218-222: the Activation row, activated_at through the DateTime column.
NewActivation(license_db_id, machine_fingerprint, now) ==
  [license_db_id |-> license_db_id,
   machine_fingerprint |-> machine_fingerprint,
   activated_at |-> DateTimeColumn(now)]

\* The activations table without its unique constraint.
uq_license_machine_absent(license_db_id, machine_fingerprint) == TRUE

\* UniqueConstraint("license_db_id", "machine_fingerprint"): the INSERT
\* raises IntegrityError when the table holds a row of the pair.
uq_license_machine(license_db_id, machine_fingerprint) ==
  ActivationsOf(license_db_id, machine_fingerprint) = {}

\* A commit that keeps the UPDATE of the license when the INSERT is rejected.
Committed_without_rollback(lic, assigned, machine_fingerprint, now) ==
  [ok |-> uq_license_machine(lic.id, machine_fingerprint),
   licenses |-> [licenses EXCEPT ![lic.id] = UpdateLicense(@, lic, assigned)],
   activations |->
     IF uq_license_machine(lic.id, machine_fingerprint)
     THEN Append(activations, NewActivation(lic.id, machine_fingerprint, now))
     ELSE activations]

\* A commit whose UPDATE has no WHERE clause: every license row is written.
Committed_update_all(lic, assigned, machine_fingerprint, now) ==
  IF uq_license_machine(lic.id, machine_fingerprint)
  THEN [ok |-> TRUE,
        licenses |-> [i \in DOMAIN licenses |->
                        UpdateLicense(licenses[i], lic, assigned)],
        activations |-> Append(activations,
                               NewActivation(lic.id, machine_fingerprint, now))]
  ELSE [ok |-> FALSE, licenses |-> licenses, activations |-> activations]

\* A commit that replaces the row of the pair instead of rejecting the INSERT.
Committed_upsert(lic, assigned, machine_fingerprint, now) ==
  [ok |-> TRUE,
   licenses |-> [licenses EXCEPT ![lic.id] = UpdateLicense(@, lic, assigned)],
   activations |->
     IF uq_license_machine(lic.id, machine_fingerprint)
     THEN Append(activations, NewActivation(lic.id, machine_fingerprint, now))
     ELSE [i \in DOMAIN activations |->
             IF i \in ActivationsOf(lic.id, machine_fingerprint)
             THEN NewActivation(lic.id, machine_fingerprint, now)
             ELSE activations[i]]]

\* The tables after db.commit() of line 231: the UPDATE and the INSERT of one
\* transaction, or the tables as they were when the INSERT is rejected
\* (the transaction is rolled back).
Committed(lic, assigned, machine_fingerprint, now) ==
  IF uq_license_machine(lic.id, machine_fingerprint)
  THEN [ok |-> TRUE,
        licenses |-> [licenses EXCEPT ![lic.id] = UpdateLicense(@, lic, assigned)],
        activations |-> Append(activations,
                               NewActivation(lic.id, machine_fingerprint, now))]
  ELSE [ok |-> FALSE, licenses |-> licenses, activations |-> activations]

\* Lines 210-231: first-activation bookkeeping, the new Activation, commit.
ActivateCommit(c) ==
  /\ calls[c].pc = "commit"
  /\ LET lic == calls[c].lic
         fp == calls[c].payload.machine_fingerprint
         assigned == AssignLicense(lic, calls[c].now, fp, calls[c].used_seats)
         db == Committed(lic, assigned, fp, calls[c].now)
     IN /\ licenses' = db.licenses
        /\ activations' = db.activations
        /\ IF db.ok
           THEN calls' = [calls EXCEPT ![c] =
                  [IdleCall EXCEPT !.pc = "refresh", !.payload = calls[c].payload,
                                   !.lic = [id |-> lic.id]]]
           ELSE Finish(c, Failure("IntegrityError"))
  /\ UNCHANGED <<clock, admin>>

\* Lines 232-241: the commit has expired the attributes of the session's
\* License object; db.refresh(lic) reloads the row by primary key and the
\* response reports it.
ActivateRefresh(c) ==
  /\ calls[c].pc = "refresh"
  /\ LET row == licenses[calls[c].lic.id]
     IN Finish(c, Response("Activated", row.expires_at, row.used_seats))
  /\ UNCHANGED <<licenses, activations, clock, admin>>

----------------------------------------------------------------------------
\* POST /admin/create as its two SQL statements, for the overlap of admin
\* requests (admin_create_license above is the same handler run alone)

\* The checks of the payload if max_seats = 0 passed.
CreateValidation_accepts_zero_seats(payload) ==
  IF payload.max_seats < 0 THEN "max_seats must be positive"
  ELSE IF payload.duration_seconds < 0 THEN "duration_seconds must be >= 0"
  ELSE ""

\* Lines 138-142: the checks of the payload, in the handler's order; "" when
\* the payload passes.
CreateValidation(payload) ==
  IF payload.max_seats <= 0 THEN "max_seats must be positive"
  ELSE IF payload.duration_seconds < 0 THEN "duration_seconds must be >= 0"
  ELSE ""

\* Lines 138-146: validate the payload, then SELECT the license_id.
CreateCheck(a, payload) ==
  /\ admin[a].pc = "idle"
  /\ \A b \in AdminCalls : b < a => admin[b].pc # "idle"
  /\ IF CreateValidation(payload) # ""
     THEN FinishAdmin(a, "create", payload,
                      AdminResponse(CreateValidation(payload), <<>>))
     ELSE IF LicenseByLicenseId(payload.license_id) # NoLic
     THEN FinishAdmin(a, "create", payload,
                      AdminResponse("License ID already exists", <<>>))
     ELSE admin' = [admin EXCEPT ![a] =
            [IdleAdmin EXCEPT !.pc = "commit", !.op = "create",
                              !.payload = payload]]
  /\ UNCHANGED <<licenses, activations, clock, calls>>

\* The licenses table without the unique index on license_id.
ix_licenses_license_id_absent(license_id) == TRUE

\* Column(String, unique=True, index=True): the unique index on license_id
\* accepts an INSERT when no committed row has the license_id.
ix_licenses_license_id(license_id) == LicenseByLicenseId(license_id) = NoLic

\* Lines 148-167: INSERT the License row and commit; the unique index fails
\* the commit with IntegrityError, which the handler does not catch.
CreateCommit(a) ==
  /\ admin[a].pc = "commit"
  /\ LET payload == admin[a].payload
     IN IF ix_licenses_license_id(payload.license_id)
        THEN /\ licenses' = Append(licenses, NewLicense(payload))
             /\ FinishAdmin(a, "create", payload,
                  AdminResponse("License created",
                                [max_seats |-> payload.max_seats]))
        ELSE /\ licenses' = licenses
             /\ FinishAdmin(a, "create", payload,
                            AdminResponse("IntegrityError", <<>>))
  /\ UNCHANGED <<activations, clock, calls>>

----------------------------------------------------------------------------
\* The GET reports. Each runs its SELECTs in a session of its own and returns
\* without a commit.

\* datetime.isoformat(): the naive value read from a DateTime column prints
\* without an offset
isoformat(dt) ==
  [iso |-> dt.t, offset |-> IF dt.tz = "utc" THEN "+00:00" ELSE ""]

\* fingerprint[:20] + "..."; the fingerprints of the payloads are shorter
\* than 20 characters
Abbreviated(machine_fingerprint) ==
  [prefix |-> machine_fingerprint, suffix |-> "..."]

\* The License.license_id values of the payloads in ascending order
LicenseIdsAscending == <<"L1", "L2">>

\* Lines 108-121
license_to_dict(lic) ==
  [id |-> lic.id,
   license_id |-> lic.license_id,
   duration_seconds |-> lic.duration_seconds,
   first_activation_at |->
     IF lic.first_activation_at # None
     THEN <<isoformat(lic.first_activation_at)>> ELSE <<>>,
   expires_at |->
     IF lic.expires_at # None THEN <<isoformat(lic.expires_at)>> ELSE <<>>,
   last_machine |->
     IF lic.machine_fingerprint # NoMachine
     THEN <<Abbreviated(lic.machine_fingerprint)>> ELSE <<>>,
   active |-> lic.active,
   max_seats |-> lic.max_seats,
   used_seats |-> CountActivations(lic.id)]

\* A sequence in descending order of its index, as order_by(id.desc())
Descending(rows) == [k \in 1..Len(rows) |-> rows[Len(rows) - k + 1]]

\* Guard of every report: the request has not run yet.
ReportStarts(a) ==
  /\ admin[a].pc = "idle"
  /\ \A b \in AdminCalls : b < a => admin[b].pc # "idle"

\* Lines 126-131
root(a) ==
  /\ ReportStarts(a)
  /\ FinishAdmin(a, "root", IdleAdmin.payload,
                 AdminResponse("License server running", <<>>))
  /\ UNCHANGED <<licenses, activations, clock, calls>>

\* Lines 246-253
admin_license_ids(a) ==
  /\ ReportStarts(a)
  /\ FinishAdmin(a, "license-ids", IdleAdmin.payload,
       AdminResponse("",
         SelectSeq(LicenseIdsAscending,
                   LAMBDA id : LicenseByLicenseId(id) # NoLic)))
  /\ UNCHANGED <<licenses, activations, clock, calls>>

\* Lines 256-262
admin_license_exists(a, license_id) ==
  /\ ReportStarts(a)
  /\ FinishAdmin(a, "license-exists", [license_id |-> license_id],
       AdminResponse("", <<LicenseByLicenseId(license_id) # NoLic>>))
  /\ UNCHANGED <<licenses, activations, clock, calls>>

\* Lines 265-270
view_all_licenses(a) ==
  /\ ReportStarts(a)
  /\ FinishAdmin(a, "licenses", IdleAdmin.payload,
       AdminResponse("",
         Descending([i \in DOMAIN licenses |-> license_to_dict(licenses[i])])))
  /\ UNCHANGED <<licenses, activations, clock, calls>>

\* view_activations if the report deleted the rows it returned and committed.
view_activations_draining(a) ==
  /\ ReportStarts(a)
  /\ FinishAdmin(a, "activations", IdleAdmin.payload,
       AdminResponse("",
         Descending([i \in DOMAIN activations |->
           [id |-> i,
            license_db_id |-> activations[i].license_db_id,
            machine |-> <<Abbreviated(activations[i].machine_fingerprint)>>,
            activated_at |-> <<isoformat(activations[i].activated_at)>>]])))
  /\ activations' = <<>>
  /\ UNCHANGED <<licenses, clock, calls>>

\* Lines 273-287
view_activations(a) ==
  /\ ReportStarts(a)
  /\ FinishAdmin(a, "activations", IdleAdmin.payload,
       AdminResponse("",
         Descending([i \in DOMAIN activations |->
           [id |-> i,
            license_db_id |-> activations[i].license_db_id,
            machine |-> <<Abbreviated(activations[i].machine_fingerprint)>>,
            activated_at |-> <<isoformat(activations[i].activated_at)>>]])))
  /\ UNCHANGED <<licenses, activations, clock, calls>>

\* The endpoints that only read
Reports == {"root", "license-ids", "license-exists", "licenses", "activations"}

\* Admin requests overlapping each other and one /activate request. The
\* request is the first of its machine, so its lookup finds no seat and the
\* already-activated response (ActivateExisting) is not among its steps.
NextAdmin ==
  \/ \E a \in AdminCalls, payload \in CreatePayloads : CreateCheck(a, payload)
  \/ \E a \in AdminCalls : CreateCommit(a)
  \/ \E a \in AdminCalls : root(a)
  \/ \E a \in AdminCalls : admin_license_ids(a)
  \/ \E a \in AdminCalls, license_id \in {"L1", "L2"} :
       admin_license_exists(a, license_id)
  \/ \E a \in AdminCalls : view_all_licenses(a)
  \/ \E a \in AdminCalls : view_activations(a)
  \/ \E payload \in ActivatePayloads : ActivateLoad(1, payload)
  \/ ActivateExpiry(1)
  \/ ActivateLookup(1)
  \/ ActivateCount(1)
  \/ ActivateCommit(1)
  \/ ActivateRefresh(1)

SpecAdmin == Init /\ [][NextAdmin]_vars

----------------------------------------------------------------------------
\* Disabled licenses. No handler writes License.active after the INSERT: a
\* license is disabled by an UPDATE of the column made on the database file
\* from outside the application.

DisableLicense(i) ==
  /\ licenses[i].active
  /\ licenses' = [licenses EXCEPT ![i].active = FALSE]
  /\ UNCHANGED <<activations, clock, calls, admin>>

\* The create requests of SpecInactive: the timed license of two seats
InactivePayloads ==
  {payload \in CreatePayloads :
     payload.license_id = "L1" /\ payload.max_seats = 2}

\* Activations of one license that is created and may be disabled at any
\* moment; no other license is created, so the requests that name one find
\* it unknown.
NextInactive ==
  \/ \E payload \in InactivePayloads : admin_create_license(payload)
  \/ \E i \in DOMAIN licenses : DisableLicense(i)
  \/ \E c \in Calls, payload \in ActivatePayloads : ActivateLoad(c, payload)
  \/ \E c \in Calls : ActivateExpiry(c)
  \/ \E c \in Calls : ActivateLookup(c)
  \/ \E c \in Calls : ActivateExisting(c)
  \/ \E c \in Calls : ActivateCount(c)
  \/ \E c \in Calls : ActivateCommit(c)
  \/ \E c \in Calls : ActivateRefresh(c)

SpecInactive == Init /\ [][NextInactive]_vars

----------------------------------------------------------------------------

Next ==
  \/ \E payload \in CreatePayloads : admin_create_license(payload)
  \/ \E c \in Calls, payload \in ActivatePayloads : ActivateLoad(c, payload)
  \/ \E c \in Calls : ActivateExpiry(c)
  \/ \E c \in Calls : ActivateLookup(c)
  \/ \E c \in Calls : ActivateExisting(c)
  \/ \E c \in Calls : ActivateCount(c)
  \/ \E c \in Calls : ActivateCommit(c)
  \/ \E c \in Calls : ActivateRefresh(c)

Spec == Init /\ [][Next]_vars

----------------------------------------------------------------------------
\* Vocabulary of the properties

ErrorMessages ==
  {"Unknown or inactive license", "Invalid key for this License ID",
   "License expired", "Max seats reached for this License ID",
   "TypeError", "IntegrityError"}

\* The Activation rows of a license.
SeatsOf(license_db_id) ==
  {i \in DOMAIN activations : activations[i].license_db_id = license_db_id}

\* Call c makes its last step (returns or raises) in this step.
Finishes(c) == calls[c].pc # "done" /\ calls'[c].pc = "done"

\* The calls made on the license with this license_id.
CallsOn(license_id) ==
  {c \in Calls : calls[c].payload.license_id = license_id}

----------------------------------------------------------------------------
\* C1. Seat bound: in every reachable state every license has at most
\* max_seats Activation rows, whatever the interleaving of activate calls.
C1_SeatBound ==
  \A i \in DOMAIN licenses :
    CountActivations(licenses[i].id) <= licenses[i].max_seats

\* C2. Seat-boundary concurrency: when N+K (K > 0) activate calls with the
\* correct key and pairwise distinct machines were made on a license of
\* max_seats = N that existed when they were made, and all have completed,
\* exactly N returned "Activated", K returned "Max seats reached", and N
\* Activation rows exist.
C2_SeatBoundaryOutcome ==
  \A i \in DOMAIN licenses :
    LET lic == licenses[i]
        on == CallsOn(lic.license_id)
        with(message) == {c \in on : calls[c].result.message = message}
    IN (/\ Cardinality(on) > lic.max_seats
        /\ \A c \in on :
             /\ calls[c].pc = "done"
             /\ hash_key(calls[c].payload.raw_key) = lic.key_hash
             /\ calls[c].result.message # "Unknown or inactive license"
        /\ \A c, d \in on :
             c # d => calls[c].payload.machine_fingerprint
                        # calls[d].payload.machine_fingerprint)
       => /\ Cardinality(with("Activated")) = lic.max_seats
          /\ Cardinality(with("Max seats reached for this License ID"))
               = Cardinality(on) - lic.max_seats
          /\ CountActivations(lic.id) = lic.max_seats

\* C3. Uniqueness of seats per machine: in every reachable state the
\* activations table holds at most one row per (license, machine) pair.
C3_OneSeatPerMachine ==
  \A i, j \in DOMAIN activations :
    (/\ activations[i].license_db_id = activations[j].license_db_id
     /\ activations[i].machine_fingerprint = activations[j].machine_fingerprint)
    => i = j

\* C3 witness: a call lost the race of two calls of one machine on one
\* license (both passed the lookup, the second INSERT was rejected) and the
\* machine holds exactly one seat.
C3_Witness ==
  \E c \in Calls :
    /\ calls[c].pc = "done"
    /\ calls[c].result.message = "IntegrityError"
    /\ \E i \in DOMAIN licenses :
         /\ licenses[i].license_id = calls[c].payload.license_id
         /\ Cardinality(ActivationsOf(licenses[i].id,
                          calls[c].payload.machine_fingerprint)) = 1

\* C4. Idempotent re-activation: a call with the correct key from a machine
\* that held a seat when the call loaded the license, on a license that is
\* not expired at the call's instant, returns "Already activated on this
\* machine" and writes nothing.
C4_IdempotentReactivation ==
  [][\A c \in Calls :
       (/\ Finishes(c)
        /\ calls[c].held_at_start
        /\ LET row == licenses[calls[c].lic.id]
               now == IF calls[c].pc = "expiry" THEN clock' ELSE calls[c].now.t
           IN row.expires_at = None \/ now < row.expires_at.t)
       => /\ calls'[c].result.message = "Already activated on this machine"
          /\ licenses' = licenses
          /\ activations' = activations]_vars

\* C5. Expiry precedence: a call whose loaded license has expires_at set and
\* whose instant is at or after it fails with "License expired", whoever
\* holds seats, and writes nothing.
C5_ExpiryPrecedence ==
  [][\A c \in Calls :
       (/\ calls[c].pc = "expiry"
        /\ calls'[c].pc # "expiry"
        /\ calls[c].lic.expires_at # None
        /\ clock' >= calls[c].lic.expires_at.t)
       => /\ calls'[c].pc = "done"
          /\ calls'[c].result.message = "License expired"
          /\ licenses' = licenses
          /\ activations' = activations]_vars

\* C6. Expiry window is fixed once: once first_activation_at of a license is
\* set, no step changes first_activation_at or expires_at of that license.
C6_WindowFixedOnce ==
  [][\A i \in DOMAIN licenses :
       licenses[i].first_activation_at # None
       => /\ licenses'[i].first_activation_at = licenses[i].first_activation_at
          /\ licenses'[i].expires_at = licenses[i].expires_at]_vars

\* C7. First-activation invariant: first_activation_at is set iff the license
\* has an Activation row, and then it is the activated_at of the earliest
\* row of the license.
C7_FirstActivation ==
  \A i \in DOMAIN licenses :
    LET first == licenses[i].first_activation_at
        seats == SeatsOf(licenses[i].id)
    IN /\ first # None <=> seats # {}
       /\ first # None =>
            /\ \E a \in seats : activations[a].activated_at = first
            /\ \A a \in seats : activations[a].activated_at.t >= first.t

\* C8. Timed-license expiry invariant: a license with duration_seconds > 0
\* has expires_at set exactly when it has an Activation row, and then
\* expires_at = first_activation_at + duration_seconds.
C8_TimedExpiry ==
  \A i \in DOMAIN licenses :
    licenses[i].duration_seconds > 0 =>
      /\ licenses[i].expires_at # None <=> SeatsOf(licenses[i].id) # {}
      /\ licenses[i].expires_at # None =>
           /\ licenses[i].first_activation_at # None
           /\ licenses[i].expires_at =
                PlusSeconds(licenses[i].first_activation_at,
                            licenses[i].duration_seconds)

\* C8 witness: a timed license on which two calls have committed at
\* different instants.
C8_Witness ==
  \E i \in DOMAIN licenses :
    /\ licenses[i].duration_seconds > 0
    /\ licenses[i].expires_at # None
    /\ \E a, b \in SeatsOf(licenses[i].id) :
         activations[a].activated_at # activations[b].activated_at

\* C9. Perpetual licenses: a license with duration_seconds = 0 has
\* expires_at = None in every state, and no completed call on it has failed
\* with "License expired".
C9_Perpetual ==
  \A i \in DOMAIN licenses :
    licenses[i].duration_seconds = 0 =>
      /\ licenses[i].expires_at = None
      /\ \A c \in CallsOn(licenses[i].license_id) :
           calls[c].result.message # "License expired"

\* C9 witness: a perpetual license with a seat taken, and a later call on it
\* completed with a success after the clock has advanced.
C9_Witness ==
  \E i \in DOMAIN licenses :
    /\ licenses[i].duration_seconds = 0
    /\ SeatsOf(licenses[i].id) # {}
    /\ clock = MaxTime
    /\ \E a \in SeatsOf(licenses[i].id) : activations[a].activated_at.t < clock
    /\ \E c \in CallsOn(licenses[i].license_id) :
         /\ calls[c].pc = "done"
         /\ calls[c].result.message = "Already activated on this machine"

\* C10. No side effects on failure: the step in which a call fails leaves
\* both tables unchanged, a call that has committed does not fail, the only
\* steps that change a license row or the activations table are commits of
\* calls that go on to report success, and in every state a license whose
\* first_activation_at is set has the Activation row of that instant.
C10_NoSideEffectsOnFailure ==
  [][/\ \A c \in Calls :
          (Finishes(c) /\ calls'[c].result.message \in ErrorMessages)
          => (licenses' = licenses /\ activations' = activations)
     /\ \A c \in Calls :
          (calls[c].pc = "refresh" /\ Finishes(c))
          => calls'[c].result.message = "Activated"
     /\ (activations' # activations
           \/ \E i \in DOMAIN licenses : licenses'[i] # licenses[i])
        => \E c \in Calls : calls[c].pc = "commit" /\ calls'[c].pc = "refresh"
     /\ \A i \in DOMAIN licenses' :
          licenses'[i].first_activation_at # None
          => \E a \in DOMAIN activations' :
               /\ activations'[a].license_db_id = licenses'[i].id
               /\ activations'[a].activated_at = licenses'[i].first_activation_at
    ]_vars

\* C10 witness: a call whose session had set first_activation_at (the
\* license had none when loaded) failed at commit on the uniqueness
\* constraint, after another call with an earlier instant had committed.
C10_Witness ==
  \E c \in Calls :
    /\ calls[c].pc = "done"
    /\ calls[c].result.message = "IntegrityError"
    /\ clock > 0
    /\ \E i \in DOMAIN licenses :
         /\ licenses[i].license_id = calls[c].payload.license_id
         /\ licenses[i].duration_seconds > 0
         /\ licenses[i].first_activation_at.t = 0

\* C12. Decision order of activate: each call ends with the error of the
\* first failing check in the order license lookup/active, key, expiry,
\* existing activation, seat limit: a wrong key gives "Invalid key" whatever
\* the expiry and the seats, an expired license gives "License expired"
\* whatever the seats, and only a call that passed all of these is refused
\* for the seat limit.
C12_DecisionOrder ==
  [][\A c \in Calls :
       /\ (calls[c].pc = "idle" /\ calls'[c].pc # "idle") =>
            LET payload == calls'[c].payload
                lic == LicenseByLicenseId(payload.license_id)
            IN IF lic = NoLic \/ ~lic.active
               THEN calls'[c].result.message = "Unknown or inactive license"
               ELSE IF lic.key_hash # hash_key(payload.raw_key)
               THEN calls'[c].result.message = "Invalid key for this License ID"
               ELSE calls'[c].pc = "expiry"
       /\ (calls[c].pc = "expiry" /\ calls'[c].pc # "expiry") =>
            IF /\ calls[c].lic.expires_at # None
               /\ clock' >= calls[c].lic.expires_at.t
            THEN calls'[c].result.message = "License expired"
            ELSE calls'[c].pc = "lookup"
       /\ (calls[c].pc = "count" /\ calls'[c].pc # "count") =>
            IF Cardinality(SeatsOf(calls[c].lic.id)) >= calls[c].lic.max_seats
            THEN calls'[c].result.message = "Max seats reached for this License ID"
            ELSE calls'[c].pc = "commit"]_vars

\* C14. Reported seat count: a call that consumed a seat reports as
\* used_seats the number of Activation rows its license had right after its
\* commit (its own row and the rows inserted before it), and an "Already
\* activated" response reports the current number of rows.
C14_ReportedSeatCount ==
  [][\A c \in Calls :
       /\ (calls[c].pc = "refresh" /\ Finishes(c)) =>
            LET own == CHOOSE i \in ActivationsOf(calls[c].lic.id,
                                     calls[c].payload.machine_fingerprint) : TRUE
            IN calls'[c].result.used_seats =
                 Cardinality({j \in SeatsOf(calls[c].lic.id) : j <= own})
       /\ (calls[c].pc = "existing" /\ Finishes(c)) =>
            calls'[c].result.used_seats =
              Cardinality(SeatsOf(calls[c].lic.id))]_vars

\* C17. Independence of licenses: a step of an activate call on one license
\* changes no row of another license, no Activation row of another license
\* and no other call, and what the call reads and decides (the loaded row,
\* the existing-activation lookup, the seat count) is taken from the rows of
\* its own license only.
C17_Independence ==
  [][\A c \in Calls :
       calls'[c] # calls[c] =>
         LET license_id == calls'[c].payload.license_id
         IN /\ \A i \in DOMAIN licenses :
                 licenses[i].license_id # license_id => licenses'[i] = licenses[i]
            /\ \A j \in DOMAIN activations' :
                 licenses[activations'[j].license_db_id].license_id # license_id
                 => (j \in DOMAIN activations /\ activations'[j] = activations[j])
            /\ \A j \in DOMAIN activations :
                 j \in DOMAIN activations' /\
                 activations'[j].license_db_id = activations[j].license_db_id
            /\ \A d \in Calls \ {c} : calls'[d] = calls[d]
            /\ calls'[c].pc = "expiry" =>
                 calls'[c].lic.license_id = license_id
            /\ (calls[c].pc = "lookup") =>
                 (calls'[c].pc = "existing" <=>
                    \E j \in SeatsOf(calls[c].lic.id) :
                      activations[j].machine_fingerprint
                        = calls[c].payload.machine_fingerprint)
            /\ (calls[c].pc = "count") =>
                 (calls'[c].pc = "commit" <=>
                    Cardinality(SeatsOf(calls[c].lic.id)) < calls[c].lic.max_seats)
            /\ (calls[c].pc = "count" /\ calls'[c].pc = "commit") =>
                 calls'[c].used_seats = Cardinality(SeatsOf(calls[c].lic.id))]_vars

\* C17 witness: two licenses, each with a seat taken by a different call.
C17_Witness ==
  \E i, j \in DOMAIN licenses :
    /\ i # j
    /\ SeatsOf(licenses[i].id) # {}
    /\ SeatsOf(licenses[j].id) # {}
    /\ \A c \in Calls : calls[c].result.message = "Activated"

\* C18. Existing seat beats seat limit: on a non-expired license whose seats
\* are all taken, a call with the correct key from a machine that held a
\* seat when the call began returns "Already activated on this machine" with
\* used_seats = max_seats, and a call from a machine that holds no seat
\* fails with "Max seats reached for this License ID".
C18_ExistingSeatBeatsLimit ==
  [][\A c \in Calls :
       Finishes(c) =>
         LET payload == calls'[c].payload
             row == LicenseByLicenseId(payload.license_id)
             now == IF calls[c].pc = "expiry" THEN clock' ELSE calls[c].now.t
             holds == ActivationsOf(row.id, payload.machine_fingerprint) # {}
         IN (/\ row # NoLic
             /\ row.active
             /\ row.key_hash = hash_key(payload.raw_key)
             /\ calls[c].pc # "idle"
             /\ Cardinality(SeatsOf(row.id)) = row.max_seats
             /\ row.expires_at = None \/ now < row.expires_at.t)
            => /\ calls[c].held_at_start =>
                    /\ calls'[c].result.message = "Already activated on this machine"
                    /\ calls'[c].result.used_seats = row.max_seats
               /\ ~holds =>
                    calls'[c].result.message = "Max seats reached for this License ID"]_vars

\* C19. Activations are append-only: every Activation row of a state is in
\* every later state, unchanged, so the seat count of a license never
\* decreases.
C19_AppendOnly ==
  [][/\ \A i \in DOMAIN activations :
          i \in DOMAIN activations' /\ activations'[i] = activations[i]
     /\ \A i \in DOMAIN licenses :
          Cardinality({j \in DOMAIN activations' :
                         activations'[j].license_db_id = licenses[i].id})
            >= Cardinality(SeatsOf(licenses[i].id))]_vars

\* C19 witness: a row inserted at instant 0 is still there, as inserted,
\* after a later call of the same machine on the same license has run past
\* the lookup and has been refused at commit at a later instant.
C19_Witness ==
  \E i \in DOMAIN activations :
    /\ activations[i].activated_at.t = 0
    /\ clock = MaxTime
    /\ \E c \in Calls :
         /\ calls[c].pc = "done"
         /\ calls[c].result.message = "IntegrityError"
         /\ calls[c].payload.machine_fingerprint = activations[i].machine_fingerprint
         /\ licenses[activations[i].license_db_id].license_id
              = calls[c].payload.license_id

\* C20. Cached seat counter does not drift: in every reachable state the
\* used_seats column of every license equals the number of its Activation
\* rows.
C20_CachedCounter ==
  \A i \in DOMAIN licenses :
    licenses[i].used_seats = CountActivations(licenses[i].id)

----------------------------------------------------------------------------
\* Disabled licenses (SpecInactive)

\* The step of call c that loads the license (lines 174-180)
LoadStep(c) == calls[c].pc = "idle" /\ calls'[c].pc # "idle"

\* The License row the load step of call c finds, NoLic if there is none
Loaded(c) == LicenseByLicenseId(calls'[c].payload.license_id)

\* A call that finds no row, or a row with active = False, ends in its load
\* step with "Unknown or inactive license", whatever its key, the expiry and
\* the seats of the license, and writes nothing.
RejectedAtLoad ==
  \A c \in Calls :
    (LoadStep(c) /\ (Loaded(c) = NoLic \/ ~Loaded(c).active))
    => /\ calls'[c].pc = "done"
       /\ calls'[c].result = Failure("Unknown or inactive license")
       /\ licenses' = licenses
       /\ activations' = activations

\* C13 (amended): an activate call for a license_id that does not exist and
\* an activate call for an existing license with active = False fail with the
\* same error, "Unknown or inactive license"; both pre-empt the key, expiry
\* and seat checks and mutate nothing.
C13_UnknownOrInactive == [][RejectedAtLoad]_vars

\* C13 as stated: as above, and the error of a call on a disabled license is
\* distinct from the error of a call on a license_id that does not exist.
C13_DistinctErrorKinds ==
  [][/\ RejectedAtLoad
     /\ \A c, d \in Calls :
          ( /\ LoadStep(c)
            /\ Loaded(c) # NoLic
            /\ ~Loaded(c).active
            /\ calls[d].pc = "done"
            /\ LicenseByLicenseId(calls[d].payload.license_id) = NoLic )
          => calls'[c].result.message # calls[d].result.message]_vars

\* A license that gave a seat was disabled, and a later call on it, with the
\* wrong key, was rejected as unknown or inactive.
C13_Witness ==
  \E c, d \in Calls :
    /\ c < d
    /\ calls[c].pc = "done"
    /\ calls[c].result.message = "Activated"
    /\ calls[d].pc = "done"
    /\ calls[d].payload.license_id = calls[c].payload.license_id
    /\ calls[d].payload.raw_key # calls[c].payload.raw_key
    /\ calls[d].result = Failure("Unknown or inactive license")
    /\ ~LicenseByLicenseId(calls[d].payload.license_id).active

----------------------------------------------------------------------------
\* POST /admin/create and the reports (SpecAdmin)

\* A step of admin request a that belongs to POST /admin/create
CreateStep(a) == admin'[a] # admin[a] /\ admin'[a].op = "create"

\* At most one License row per license_id after the step
OneRowPerLicenseId ==
  \A i, j \in DOMAIN licenses' :
    licenses'[i].license_id = licenses'[j].license_id => i = j

\* A create step keeps every License row there is and every Activation row.
CreateKeepsRows ==
  /\ \A i \in DOMAIN licenses :
       i \in DOMAIN licenses' /\ licenses'[i] = licenses[i]
  /\ activations' = activations

\* C11 (amended): a create whose payload passes validation and whose
\* license_id is already in the table when the handler looks it up fails with
\* "License ID already exists"; no create step, failed or not, changes an
\* existing License row or any Activation row; and there is at most one
\* License row per license_id after every step, overlapping creates included.
C11_DuplicateCreate ==
  [][/\ \A a \in AdminCalls :
          CreateStep(a) =>
            /\ ( /\ admin[a].pc = "idle"
                 /\ CreateValidation(admin'[a].payload) = ""
                 /\ LicenseByLicenseId(admin'[a].payload.license_id) # NoLic )
               => /\ admin'[a].pc = "done"
                  /\ admin'[a].result.message = "License ID already exists"
                  /\ licenses' = licenses
            /\ CreateKeepsRows
     /\ OneRowPerLicenseId]_vars

\* C11 as stated: every create whose license_id is already in the table fails
\* with "License ID already exists", whatever the rest of its payload; the
\* rows and the uniqueness as above.
C11_DuplicateCreate_AnyPayload ==
  [][/\ \A a \in AdminCalls :
          CreateStep(a) =>
            /\ ( /\ admin[a].pc = "idle"
                 /\ LicenseByLicenseId(admin'[a].payload.license_id) # NoLic )
               => /\ admin'[a].pc = "done"
                  /\ admin'[a].result.message = "License ID already exists"
                  /\ licenses' = licenses
            /\ CreateKeepsRows
     /\ OneRowPerLicenseId]_vars

\* A create was refused as a duplicate of a license that holds a seat.
C11_Witness ==
  \E a \in AdminCalls :
    /\ admin[a].pc = "done"
    /\ admin[a].op = "create"
    /\ admin[a].result.message = "License ID already exists"
    /\ LicenseByLicenseId(admin[a].payload.license_id) # NoLic
    /\ CountActivations(LicenseByLicenseId(admin[a].payload.license_id).id) > 0

\* C15: a create with max_seats <= 0 or duration_seconds < 0 fails with one of
\* the two validation errors in its first step and adds no License row; and
\* every License row has max_seats >= 1 and duration_seconds >= 0.
C15_CreateValidation ==
  [][/\ \A a \in AdminCalls :
          ( /\ CreateStep(a)
            /\ \/ admin'[a].payload.max_seats <= 0
               \/ admin'[a].payload.duration_seconds < 0 )
          => /\ admin[a].pc = "idle"
             /\ admin'[a].pc = "done"
             /\ admin'[a].result.message \in
                  {"max_seats must be positive", "duration_seconds must be >= 0"}
             /\ licenses' = licenses
     /\ \A i \in DOMAIN licenses' :
          licenses'[i].max_seats >= 1 /\ licenses'[i].duration_seconds >= 0]_vars

\* Both validation errors were returned, and a valid license was created.
C15_Witness ==
  /\ \E a \in AdminCalls :
       /\ admin[a].pc = "done"
       /\ admin[a].payload.max_seats <= 0
       /\ admin[a].result.message = "max_seats must be positive"
  /\ \E a \in AdminCalls :
       /\ admin[a].pc = "done"
       /\ admin[a].payload.max_seats > 0
       /\ admin[a].payload.duration_seconds < 0
       /\ admin[a].result.message = "duration_seconds must be >= 0"

\* C16: a step of a report (healthcheck, license ids, license exists, all
\* licenses, all activations) leaves every License row, with its
\* first_activation_at, expires_at and used_seats, and every Activation row
\* as they were, wherever it falls between the steps of create and activate
\* requests; and it leaves those requests where they were.
C16_ReportsReadOnly ==
  [][\A a \in AdminCalls :
       (admin'[a] # admin[a] /\ admin'[a].op \in Reports)
       => /\ licenses' = licenses
          /\ activations' = activations
          /\ calls' = calls
          /\ \A b \in AdminCalls \ {a} : admin'[b] = admin[b]]_vars

\* The activations report ran between the commit and the refresh of an
\* activation and shows its seat.
C16_Witness ==
  /\ calls[1].pc = "refresh"
  /\ \E a \in AdminCalls :
       /\ admin[a].pc = "done"
       /\ admin[a].op = "activations"
       /\ Len(admin[a].result.body) = 1
       /\ admin[a].result.body[1].license_db_id = calls[1].lic.id

====
